---------------------------- MODULE Spec2Model ----------------------------
(***************************************************************************)
(* A model of swift::CompilerInstance (lib/Frontend/Frontend.cpp): the     *)
(* session set-up (setup) and the multi-file parse / type-check driver     *)
(* (performParse).                                                         *)
(*                                                                         *)
(* setup is one action: it draws an invocation and a host environment and  *)
(* runs the whole function.  performParse is a sequence of steps, one per  *)
(* loop iteration, so that the order of the collaborator calls it issues   *)
(* (parseIntoSourceFile, performNameBinding, loadAST, performTypeChecking, *)
(* performDelayedParsing) is visible; the calls are recorded in Calls.     *)
(*                                                                         *)
(* Sequences are 1-based: input index i of the code is i + 1 here.         *)
(***************************************************************************)
EXTENDS Integers, Sequences, FiniteSets, TLC

\* ------------------------------------------------------------- bounds

\* The most memory inputs, the most file inputs, and the most buffers offered
\* for registration (the code-completion buffer, the memory inputs and the
\* file inputs together).
MaxBuffers == 2
MaxFilenames == 2
MaxInputs == 3
\* The most pumps of the main file, and the most declarations one pump appends.
MaxPumps == 2
MaxChunk == 1

\* ---------------------------------------------------------- constants

\* Frontend.h's sentinel for "no buffer" (~0U there); buffer ids start at 1.
NO_SUCH_BUFFER == 0

Unset == "unset"

\* Optional<SelectedInput> and the code-completion point, when absent.
NoPrimaryInput == [kind |-> "none", Index |-> 0]
NoCodeCompletionPoint == [ident |-> "", content |-> "none"]

\* ------------------------------------------------------------- inputs

Min(a, b) == IF a < b THEN a ELSE b

BoundedSeq(S, n) == UNION { [1..k -> S] : k \in 0..n }

\* Target triples: (os, arch) as llvm::Triple parses them.
RecognizedTriples ==
    { [os |-> "macosx", arch |-> "x86_64"],
      [os |-> "darwin", arch |-> "x86"],
      [os |-> "ios", arch |-> "arm"],
      [os |-> "ios", arch |-> "arm64"] }

UnrecognizedTriples ==
    { [os |-> "linux", arch |-> "x86_64"],
      [os |-> "macosx", arch |-> "mips"] }

DefaultTriple == [os |-> "macosx", arch |-> "x86_64"]

\* Buffer identifiers (paths).
Paths == { "src/main.swift", "src/a.swift", "lib/m.swiftmodule", "src/gone.swift" }

\* The file system setup reads: a path's bytes, or a failure to open it.
\* Bytes are abstracted to what isSerializedAST says of them.
FileSystem(File) ==
    CASE File = "src/main.swift" -> "source"
      [] File = "src/a.swift" -> "source"
      [] File = "lib/m.swiftmodule" -> "serializedAST"
      [] OTHER -> "ENOENT"

\* Memory inputs: (identifier, bytes).
MemoryBuffers ==
    { [ident |-> "src/main.swift", content |-> "source"],
      [ident |-> "src/a.swift", content |-> "source"],
      [ident |-> "lib/m.swiftmodule", content |-> "serializedAST"] }

CodeCompleteBuffer == [ident |-> "src/a.swift", content |-> "source"]

SourceFileKinds == { "Main", "Library", "SIL", "REPL" }

\* Optional<SelectedInput>: absent, or an input kind and an index.
PrimaryInputs(n) ==
    {NoPrimaryInput} \cup [kind : {"buffer", "filename"}, Index : 1..n]

\* The host: is a Clang importer linked in (getClangImporterCtor non-null),
\* and does constructing it succeed.
Hosts ==
    { [ImporterCtor |-> FALSE, ImporterCreated |-> FALSE],
      [ImporterCtor |-> TRUE, ImporterCreated |-> FALSE],
      [ImporterCtor |-> TRUE, ImporterCreated |-> TRUE] }

DefaultHost == [ImporterCtor |-> TRUE, ImporterCreated |-> TRUE]

\* What setup is called with is drawn from two families of invocations:
\* the rich ones vary the inputs and the parse options on the default
\* platform and host, the others vary the platform, the loader options and
\* the host over a few inputs.
KindsOf(rich) == IF rich THEN SourceFileKinds ELSE { "Main" }

TriplesOf(rich) ==
    IF rich THEN { DefaultTriple } ELSE RecognizedTriples \cup UnrecognizedTriples

HostsOf(rich) == IF rich THEN { DefaultHost } ELSE Hosts

LoaderOptionsOf(rich) == IF rich THEN { FALSE } ELSE BOOLEAN

InputBuffersOf(rich) ==
    IF rich THEN BoundedSeq(MemoryBuffers, MaxBuffers) ELSE { << >> }

\* The file inputs that may go with a code-completion point and the memory
\* inputs bs.
InputFilenamesOf(rich, cc, bs) ==
    IF rich
    THEN BoundedSeq(Paths,
                    Min(MaxFilenames,
                        MaxInputs - Len(bs)
                          - (IF cc = NoCodeCompletionPoint THEN 0 ELSE 1)))
    ELSE { << >>, << "src/main.swift" >>, << "src/gone.swift" >> }

PrimaryInputsOf(rich) ==
    IF rich THEN PrimaryInputs(MaxFilenames) ELSE { NoPrimaryInput }

ParseOptionsOf(rich) == IF rich THEN BOOLEAN ELSE { FALSE }

\* ---------------------------------------------------------------- state

VARIABLES
    pc,                  \* where the session is (see the actions)
    Invocation,          \* the invocation setup was given
    Host,                \* the host setup ran on
    TargetConfigOptions, \* LangOpts.TargetConfigOptions: "os", "arch"
    ModuleLoaders,       \* Context's loader chain, in registration order
    SourceMgr,           \* the buffer registry: buffer id -> buffer
    CodeCompletionBufferID,
    OpenedFiles,         \* the paths getFileOrSTDIN was called on, in order
    BufferIDs,
    MainBufferID,
    PrimaryBufferID,
    MainModule,          \* the main module's files, in order
    LoadedASTs,          \* buffers merged into the main module by loadAST
    TheSILModule,
    PrimarySourceFile,   \* index into MainModule, 0 for null
    DelayedCB,
    hadLoadError,
    NextBuffer,          \* the library loop's position in BufferIDs
    CurTUElem,
    Done,
    Pumps,               \* pumps of the main file so far
    Calls                \* the collaborator calls performParse has issued

setupVars ==
    << Invocation, Host, TargetConfigOptions, ModuleLoaders, SourceMgr,
       CodeCompletionBufferID, OpenedFiles, BufferIDs, MainBufferID,
       PrimaryBufferID >>

parseVars ==
    << MainModule, LoadedASTs, TheSILModule, PrimarySourceFile, DelayedCB,
       hadLoadError, NextBuffer, CurTUElem, Done, Pumps, Calls >>

vars == << pc, setupVars, parseVars >>

\* ------------------------------------------------ setTargetConfigurations

isMacOSX(triple) == triple.os \in { "macosx", "darwin" }

isiOS(triple) == triple.os = "ios"

\* The "os" setting.  An unsupported OS reaches assert(false): a build with
\* assertions aborts there, a build without them (NDEBUG) goes on with "os"
\* unset.  The result is the set of outcomes a build can produce.
TargetOS(triple) ==
    IF isMacOSX(triple) THEN { "OSX" }
    ELSE IF isiOS(triple) THEN { "iOS" }
    ELSE { "abort", Unset }

\* The "arch" setting.  In the default case the break is not under the if, so
\* llvm_unreachable is never executed: an unknown architecture leaves "arch"
\* unset and the switch is left normally.
TargetArch(triple) ==
    CASE triple.arch = "arm" -> "arm"
      [] triple.arch = "x86" -> "i386"
      [] triple.arch = "x86_64" -> "x86_64"
      [] OTHER -> IF triple.arch = "arm64" THEN "arm64" ELSE Unset

\* The outcomes of setTargetConfigurations: the options it leaves, and whether
\* it aborted the process.
setTargetConfigurations(triple) ==
    { [ os |-> IF o = "abort" THEN Unset ELSE o,
        arch |-> IF o = "abort" THEN Unset ELSE TargetArch(triple),
        aborted |-> (o = "abort") ] : o \in TargetOS(triple) }

\* ------------------------------------------------------ the loader chain

\* The two loaders in the other order.
SourceAndSerializedLoaders_SerializedFirst(Invok) ==
    << "SerializedModuleLoader" >>
        \o (IF Invok.EnableSourceImport THEN << "SourceLoader" >> ELSE << >>)

\* The loaders added before the Clang importer is wired up.
SourceAndSerializedLoaders(Invok) ==
    (IF Invok.EnableSourceImport THEN << "SourceLoader" >> ELSE << >>)
        \o << "SerializedModuleLoader" >>

\* Wiring that leaves a missing importer to be found at first use: no failure
\* when none is linked in.
WireClangImporter_Deferred(Invok, host, loaders) ==
    IF host.ImporterCtor
    THEN IF ~host.ImporterCreated
         THEN [ loaders |-> loaders, failed |-> TRUE ]
         ELSE [ loaders |-> Append(loaders, "ClangImporter"), failed |-> FALSE ]
    ELSE [ loaders |-> loaders, failed |-> FALSE ]

\* Wiring up the Clang importer: the chain it leaves and whether setup
\* returns failure there.
WireClangImporter(Invok, host, loaders) ==
    IF host.ImporterCtor
    THEN IF ~host.ImporterCreated
         THEN [ loaders |-> loaders, failed |-> TRUE ]
         ELSE [ loaders |-> Append(loaders, "ClangImporter"), failed |-> FALSE ]
    ELSE IF Invok.SDKPath
         THEN [ loaders |-> loaders, failed |-> TRUE ]
         ELSE [ loaders |-> loaders, failed |-> FALSE ]

\* ------------------------------------------------------ buffer admission

\* What setup threads through its input loops.
Registry(mgr, ids, ccid) ==
    [ SourceMgr |-> mgr, BufferIDs |-> ids, Main |-> NO_SUCH_BUFFER,
      Primary |-> NO_SUCH_BUFFER, Opened |-> << >>, CodeCompletion |-> ccid,
      failed |-> FALSE ]

\* SourceMgr.addMemBufferCopy / addNewSourceBuffer: always a new id, the next
\* one.
addNewSourceBuffer(mgr, ident, content, origin) ==
    Append(mgr, [ ident |-> ident, content |-> content, origin |-> origin ])

\* SourceMgr.getIDForBufferIdentifier: the ids registered under an identifier.
\* With several buffers under one identifier the registry answers with one
\* of them.
getIDForBufferIdentifier(mgr, ident) ==
    { id \in 1..Len(mgr) : mgr[id].ident = ident }

\* llvm::sys::path::filename: the last component of a path.
filename(File) ==
    CASE File = "src/main.swift" -> "main.swift"
      [] File = "src/a.swift" -> "a.swift"
      [] File = "lib/m.swiftmodule" -> "m.swiftmodule"
      [] File = "src/gone.swift" -> "gone.swift"

\* The code-completion buffer is copied into the registry and pushed on
\* BufferIDs before any input.
AddCodeCompletionBuffer(Invok) ==
    IF Invok.CodeCompletionPoint # NoCodeCompletionPoint
    THEN Registry(addNewSourceBuffer(<< >>, Invok.CodeCompletionPoint.ident,
                                     Invok.CodeCompletionPoint.content, "Memory"),
                  << 1 >>, 1)
    ELSE Registry(<< >>, << >>, NO_SUCH_BUFFER)

\* Does the primary-input selector name input i of the given kind.
IsPrimaryInput(Invok, kind, i) ==
    /\ Invok.PrimaryInput # NoPrimaryInput
    /\ Invok.PrimaryInput.kind = kind
    /\ Invok.PrimaryInput.Index = i

\* Is a file input the main file by the explicit rule.
IsMainFilename(Invok, File) ==
    \/ Invok.InputKind = "SIL"
    \/ (Invok.InputKind = "Main" /\ filename(File) = "main.swift")

\* AddInputFilename without the lookup's answer: every file input is opened
\* and registered.
AddInputFilename_Reopen(st, Invok, i, Existing) ==
    LET File == Invok.InputFilenames[i]
        BufferID == Len(st.SourceMgr) + 1
    IN  IF FileSystem(File) = "ENOENT"
        THEN [ st EXCEPT !.Opened = Append(@, File), !.failed = TRUE ]
        ELSE [ st EXCEPT
                 !.Opened = Append(@, File),
                 !.SourceMgr = addNewSourceBuffer(@, File, FileSystem(File), "Disk"),
                 !.BufferIDs = Append(@, BufferID),
                 !.Main = IF IsMainFilename(Invok, File) THEN BufferID ELSE @,
                 !.Primary = IF IsPrimaryInput(Invok, "filename", i)
                             THEN BufferID ELSE @ ]

\* A memory-buffer loop that applies the file loop's main rule to the input's
\* identifier.
AddInputBuffer_FileRule(st, Invok, i) ==
    LET BufferID == Len(st.SourceMgr) + 1
        buf == Invok.InputBuffers[i]
    IN  [ st EXCEPT
            !.SourceMgr = addNewSourceBuffer(@, buf.ident, buf.content, "Memory"),
            !.BufferIDs = Append(@, BufferID),
            !.Main = IF IsMainFilename(Invok, buf.ident) THEN BufferID ELSE @,
            !.Primary = IF IsPrimaryInput(Invok, "buffer", i) THEN BufferID ELSE @ ]

\* A memory-buffer loop that reuses the buffer already registered under the
\* input's identifier.
AddInputBuffer_ReuseIdentifier(st, Invok, i) ==
    LET buf == Invok.InputBuffers[i]
        found == getIDForBufferIdentifier(st.SourceMgr, buf.ident)
        BufferID == IF found = {} THEN Len(st.SourceMgr) + 1
                    ELSE CHOOSE id \in found : TRUE
    IN  [ st EXCEPT
            !.SourceMgr = IF found = {}
                          THEN addNewSourceBuffer(@, buf.ident, buf.content, "Memory")
                          ELSE @,
            !.BufferIDs = Append(@, BufferID),
            !.Main = IF Invok.InputKind = "SIL" THEN BufferID ELSE @,
            !.Primary = IF IsPrimaryInput(Invok, "buffer", i) THEN BufferID ELSE @ ]

\* One iteration of the memory-buffer loop.
AddInputBuffer(st, Invok, i) ==
    LET BufferID == Len(st.SourceMgr) + 1
        buf == Invok.InputBuffers[i]
    IN  [ st EXCEPT
            !.SourceMgr = addNewSourceBuffer(@, buf.ident, buf.content, "Memory"),
            !.BufferIDs = Append(@, BufferID),
            !.Main = IF Invok.InputKind = "SIL" THEN BufferID ELSE @,
            !.Primary = IF IsPrimaryInput(Invok, "buffer", i) THEN BufferID ELSE @ ]

RECURSIVE AddInputBuffers(_, _, _)
AddInputBuffers(st, Invok, i) ==
    IF i > Len(Invok.InputBuffers) THEN st
    ELSE AddInputBuffers(AddInputBuffer(st, Invok, i), Invok, i + 1)

\* A file loop that passes over a file it cannot open and goes on with the
\* next input.
AddInputFilename_SkipUnreadable(st, Invok, i, Existing) ==
    LET File == Invok.InputFilenames[i]
        BufferID == Len(st.SourceMgr) + 1
    IN  IF Existing # NO_SUCH_BUFFER
        THEN [ st EXCEPT
                 !.Main = IF IsMainFilename(Invok, File) THEN Existing ELSE @,
                 !.Primary = IF IsPrimaryInput(Invok, "filename", i)
                             THEN Existing ELSE @ ]
        ELSE IF FileSystem(File) = "ENOENT"
        THEN [ st EXCEPT !.Opened = Append(@, File) ]
        ELSE [ st EXCEPT
                 !.Opened = Append(@, File),
                 !.SourceMgr = addNewSourceBuffer(@, File, FileSystem(File), "Disk"),
                 !.BufferIDs = Append(@, BufferID),
                 !.Main = IF IsMainFilename(Invok, File) THEN BufferID ELSE @,
                 !.Primary = IF IsPrimaryInput(Invok, "filename", i)
                             THEN BufferID ELSE @ ]

\* One iteration of the file loop.  Existing is the id the registry answers
\* with for the file's identifier, NO_SUCH_BUFFER when it has none.
AddInputFilename(st, Invok, i, Existing) ==
    LET File == Invok.InputFilenames[i]
        BufferID == Len(st.SourceMgr) + 1
    IN  IF Existing # NO_SUCH_BUFFER
        THEN \* replaced by a memory buffer
             [ st EXCEPT
                 !.Main = IF IsMainFilename(Invok, File) THEN Existing ELSE @,
                 !.Primary = IF IsPrimaryInput(Invok, "filename", i)
                             THEN Existing ELSE @ ]
        ELSE IF FileSystem(File) = "ENOENT"
        THEN [ st EXCEPT !.Opened = Append(@, File), !.failed = TRUE ]
        ELSE [ st EXCEPT
                 !.Opened = Append(@, File),
                 !.SourceMgr = addNewSourceBuffer(@, File, FileSystem(File), "Disk"),
                 !.BufferIDs = Append(@, BufferID),
                 !.Main = IF IsMainFilename(Invok, File) THEN BufferID ELSE @,
                 !.Primary = IF IsPrimaryInput(Invok, "filename", i)
                             THEN BufferID ELSE @ ]

\* The file loop: the set of registries it can end with (one per answer of
\* the registry's identifier lookup).  A failure to open a file ends it.
RECURSIVE AddInputFilenames(_, _, _)
AddInputFilenames(st, Invok, i) ==
    IF st.failed \/ i > Len(Invok.InputFilenames) THEN { st }
    ELSE LET found == getIDForBufferIdentifier(st.SourceMgr, Invok.InputFilenames[i])
             answers == IF found = {} THEN { NO_SUCH_BUFFER } ELSE found
         IN  UNION { AddInputFilenames(AddInputFilename(st, Invok, i, e), Invok, i + 1) :
                       e \in answers }

\* The fallback without the count: the first buffer becomes main whenever
\* none was chosen.
ImplicitMainBuffer_AnyCount(st, Invok) ==
    IF Invok.InputKind = "Main" /\ st.Main = NO_SUCH_BUFFER /\ Len(st.BufferIDs) >= 1
    THEN [ st EXCEPT !.Main = st.BufferIDs[1] ]
    ELSE st

\* The single-buffer fallback.
ImplicitMainBuffer(st, Invok) ==
    IF Invok.InputKind = "Main" /\ st.Main = NO_SUCH_BUFFER /\ Len(st.BufferIDs) = 1
    THEN [ st EXCEPT !.Main = st.BufferIDs[1] ]
    ELSE st

\* The input part of setup: every registry it can end with.
RegisterInputs(Invok) ==
    { IF st.failed THEN st ELSE ImplicitMainBuffer(st, Invok) :
        st \in AddInputFilenames(
                  AddInputBuffers(AddCodeCompletionBuffer(Invok), Invok, 1),
                  Invok, 1) }

\* ------------------------------------------------------------------ Init

\* A default-constructed invocation: what the session holds before setup.
DefaultInvocation ==
    [ InputKind |-> "Main", Triple |-> DefaultTriple, EnableSourceImport |-> FALSE,
      SDKPath |-> FALSE, CodeCompletionPoint |-> NoCodeCompletionPoint,
      InputBuffers |-> << >>, InputFilenames |-> << >>,
      PrimaryInput |-> NoPrimaryInput, ParseOnly |-> FALSE,
      DelayedFunctionBodyParsing |-> FALSE ]

Init ==
    /\ pc = "Unconfigured"
    /\ Invocation = DefaultInvocation
    /\ Host = DefaultHost
    /\ TargetConfigOptions = [ os |-> Unset, arch |-> Unset ]
    /\ ModuleLoaders = << >>
    /\ SourceMgr = << >>
    /\ CodeCompletionBufferID = NO_SUCH_BUFFER
    /\ OpenedFiles = << >>
    /\ BufferIDs = << >>
    /\ MainBufferID = NO_SUCH_BUFFER
    /\ PrimaryBufferID = NO_SUCH_BUFFER
    /\ MainModule = << >>
    /\ LoadedASTs = << >>
    /\ TheSILModule = FALSE
    /\ PrimarySourceFile = 0
    /\ DelayedCB = "None"
    /\ hadLoadError = FALSE
    /\ NextBuffer = 1
    /\ CurTUElem = 0
    /\ Done = FALSE
    /\ Pumps = 0
    /\ Calls = << >>

\* ----------------------------------------------------------------- setup

\* What setup leaves when it stops before the inputs are registered.
NoInputs == Registry(<< >>, << >>, NO_SUCH_BUFFER)

\* Every way setup(Invok) can end on a host: where the session is then, the
\* target options, the loader chain and the registry.
SetupOutcomes(Invok, host) ==
    UNION {
      IF tc.aborted
      THEN { [ pc |-> "Aborted", tc |-> tc, loaders |-> << >>, st |-> NoInputs ] }
      ELSE LET wired == WireClangImporter(Invok, host,
                                          SourceAndSerializedLoaders(Invok))
           IN  IF wired.failed
               THEN { [ pc |-> "SetupFailed", tc |-> tc, loaders |-> wired.loaders,
                        st |-> NoInputs ] }
               ELSE { [ pc |-> IF st.failed THEN "SetupFailed" ELSE "Configured",
                        tc |-> tc, loaders |-> wired.loaders, st |-> st ] :
                      st \in RegisterInputs(Invok) } :
      tc \in setTargetConfigurations(Invok.Triple) }

\* bool CompilerInstance::setup(const CompilerInvocation &Invok), on a host.
SetupOn(Invok, host) ==
    \E out \in SetupOutcomes(Invok, host) :
       /\ pc' = out.pc
       /\ Invocation' = Invok
       /\ Host' = host
       /\ TargetConfigOptions' = [ os |-> out.tc.os, arch |-> out.tc.arch ]
       /\ ModuleLoaders' = out.loaders
       /\ SourceMgr' = out.st.SourceMgr
       /\ CodeCompletionBufferID' = out.st.CodeCompletion
       /\ OpenedFiles' = out.st.Opened
       /\ BufferIDs' = out.st.BufferIDs
       /\ MainBufferID' = out.st.Main
       /\ PrimaryBufferID' = out.st.Primary

Setup ==
    /\ pc = "Unconfigured"
    /\ \E rich \in BOOLEAN :
       \E k \in KindsOf(rich), t \in TriplesOf(rich), host \in HostsOf(rich),
          si \in LoaderOptionsOf(rich), sdk \in LoaderOptionsOf(rich),
          cc \in { NoCodeCompletionPoint, CodeCompleteBuffer },
          bs \in InputBuffersOf(rich) :
       \E fs \in InputFilenamesOf(rich, cc, bs), p \in PrimaryInputsOf(rich),
          po \in ParseOptionsOf(rich), d \in ParseOptionsOf(rich) :
          SetupOn([ InputKind |-> k, Triple |-> t, EnableSourceImport |-> si,
                    SDKPath |-> sdk, CodeCompletionPoint |-> cc,
                    InputBuffers |-> bs, InputFilenames |-> fs,
                    PrimaryInput |-> p, ParseOnly |-> po,
                    DelayedFunctionBodyParsing |-> d ], host)
    /\ UNCHANGED parseVars

\* ---------------------------------------------------------- performParse

\* A failed assert aborts a build with assertions and is skipped by a build
\* without them: both outcomes.
AssertOutcomes(cond) == IF cond THEN { "pass" } ELSE { "abort", "pass" }

SourceFile(Kind, BufferID) ==
    [ Kind |-> Kind, BufferID |-> BufferID, Decls |-> 0,
      Parsed |-> FALSE, Bound |-> FALSE ]

\* A collaborator call: its name, the buffer of the file it is about and, for
\* a chunk type-check, the start element.
Call(op, BufferID, n) == << op, BufferID, n >>

isCodeCompletion == Invocation.CodeCompletionPoint # NoCodeCompletionPoint

\* The delayed-parsing callbacks performParse installs.
DelayedCallbacks ==
    IF isCodeCompletion THEN "CodeComplete"
    ELSE IF Invocation.DelayedFunctionBodyParsing THEN "AlwaysDelayed"
    ELSE "None"

\* A main file that is not attached before the library files.
MainFileAttached_Deferred(Kind) == << >>

\* The main file, attached first and not parsed yet.
MainFileAttached(Kind) ==
    IF MainBufferID # NO_SUCH_BUFFER
    THEN << SourceFile(Kind, MainBufferID) >>
    ELSE << >>

\* A performParse that treats a REPL session like any other.
ReturnsAfterAttach_Never(Kind) == FALSE

\* Does performParse attach one empty file and return: for a REPL session.
ReturnsAfterAttach(Kind) == Kind = "REPL"

\* From the start of performParse to the library loop.
PerformParseBegin ==
    /\ pc = "Configured"
    /\ LET Kind == Invocation.InputKind
       IN  \E silAsserts \in AssertOutcomes(
                 Kind = "SIL" =>
                   (Len(BufferIDs) = 1 /\ MainBufferID # NO_SUCH_BUFFER)) :
           IF silAsserts = "abort"
           THEN /\ pc' = "Aborted"
                /\ UNCHANGED parseVars
           ELSE IF ReturnsAfterAttach(Kind)
           THEN /\ pc' = "Ready"
                /\ MainModule' = << SourceFile(Kind, NO_SUCH_BUFFER) >>
                /\ UNCHANGED << LoadedASTs, TheSILModule, PrimarySourceFile,
                                DelayedCB, hadLoadError, NextBuffer, CurTUElem,
                                Done, Pumps, Calls >>
           ELSE /\ pc' = "Libraries"
                /\ TheSILModule' = (Kind = "SIL")
                /\ DelayedCB' = DelayedCallbacks
                /\ MainModule' = MainFileAttached(Kind)
                /\ PrimarySourceFile' =
                     IF MainBufferID # NO_SUCH_BUFFER /\ MainBufferID = PrimaryBufferID
                     THEN 1 ELSE 0
                /\ hadLoadError' = FALSE
                /\ NextBuffer' = 1
                /\ UNCHANGED << LoadedASTs, CurTUElem, Done, Pumps, Calls >>
    /\ UNCHANGED setupVars

isSerializedAST(BufferID) == SourceMgr[BufferID].content = "serializedAST"

\* The library calls in the wrong order.
LibraryCalls_BindFirst(BufferID) ==
    << Call("performNameBinding", BufferID, 0),
       Call("parseIntoSourceFile", BufferID, 0) >>

\* The calls the loop makes for one library source file, in order.
LibraryCalls(BufferID) ==
    << Call("parseIntoSourceFile", BufferID, 0),
       Call("performNameBinding", BufferID, 0) >>

\* A loop that a failed load ends.
AfterBuffer_StopOnFailure(i, loadFailed) ==
    IF loadFailed THEN Len(BufferIDs) + 1 ELSE i + 1

\* Where the library loop goes after the buffer at position i, given whether
\* a serialized load just failed: always to the next buffer.
AfterBuffer(i, loadFailed) == i + 1

\* One iteration of the library loop.
ParseLibrary ==
    /\ pc = "Libraries"
    /\ NextBuffer <= Len(BufferIDs)
    /\ LET BufferID == BufferIDs[NextBuffer]
       IN  IF BufferID = MainBufferID
           THEN /\ NextBuffer' = NextBuffer + 1
                /\ UNCHANGED << MainModule, LoadedASTs, PrimarySourceFile,
                                hadLoadError, Calls >>
           ELSE IF isSerializedAST(BufferID)
           THEN \E loaded \in BOOLEAN :
                  /\ Calls' = Append(Calls, Call("loadAST", BufferID, 0))
                  /\ LoadedASTs' = IF loaded THEN Append(LoadedASTs, BufferID)
                                   ELSE LoadedASTs
                  /\ hadLoadError' = (hadLoadError \/ ~loaded)
                  /\ NextBuffer' = AfterBuffer(NextBuffer, ~loaded)
                  /\ UNCHANGED << MainModule, PrimarySourceFile >>
           ELSE /\ MainModule' =
                     Append(MainModule,
                            [ SourceFile("Library", BufferID) EXCEPT
                                !.Parsed = TRUE, !.Bound = TRUE ])
                /\ PrimarySourceFile' =
                     IF BufferID = PrimaryBufferID THEN Len(MainModule) + 1
                     ELSE PrimarySourceFile
                /\ Calls' = Calls \o LibraryCalls(BufferID)
                /\ NextBuffer' = AfterBuffer(NextBuffer, FALSE)
                /\ UNCHANGED << LoadedASTs, hadLoadError >>
    /\ pc' = pc
    /\ UNCHANGED << TheSILModule, DelayedCB, CurTUElem, Done, Pumps >>
    /\ UNCHANGED setupVars

\* Going on after the library loop whatever the loads did.
AfterLibraries_IgnoreLoadError ==
    IF MainBufferID # NO_SUCH_BUFFER THEN "MainFile" ELSE "TypeCheck"

\* Where performParse goes after the library loop.
AfterLibraries ==
    IF hadLoadError THEN "Failed"
    ELSE IF MainBufferID # NO_SUCH_BUFFER THEN "MainFile"
    ELSE "TypeCheck"

LibrariesDone ==
    /\ pc = "Libraries"
    /\ NextBuffer > Len(BufferIDs)
    /\ pc' = AfterLibraries
    /\ UNCHANGED << setupVars, parseVars >>

\* MainModule->getMainSourceFile(Kind): the position of the file of that kind.
getMainSourceFile(Kind) ==
    CHOOSE i \in 1..Len(MainModule) : MainModule[i].Kind = Kind

\* Chunk type-checking that does not look at parse-only.
TypeCheckChunks_IgnoreParseOnly ==
    PrimaryBufferID = NO_SUCH_BUFFER \/ MainBufferID = PrimaryBufferID

\* Is each pump of the main file followed by a chunk type-check.
TypeCheckChunks ==
    /\ ~Invocation.ParseOnly
    /\ (PrimaryBufferID = NO_SUCH_BUFFER \/ MainBufferID = PrimaryBufferID)

\* A pump loop that does not look at Done.
PumpAgain_Always(done) == TRUE

\* The do-while condition of the pump loop.
PumpAgain(done) == ~done

\* A chunk boundary that is never moved.
NextTUElem_Restart(decls) == 0

\* The chunk boundary after a pump: the main file's declaration count.
NextTUElem(decls) == decls

\* One pump of the main file: the parser appends the next chunk's
\* declarations and says whether the buffer is exhausted.  A parser that has
\* reported exhausted appends nothing when pumped again.
PumpMainFile ==
    /\ pc = "MainFile"
    /\ Pumps < MaxPumps
    /\ LET MainFile == getMainSourceFile(Invocation.InputKind)
       IN  \E n \in 0..MaxChunk, done \in BOOLEAN :
             /\ Done => (n = 0 /\ done)
             /\ (Pumps + 1 = MaxPumps) => done
             /\ MainModule' = [ MainModule EXCEPT
                                  ![MainFile].Decls = @ + n,
                                  ![MainFile].Parsed = done ]
             /\ Calls' = Calls
                  \o << Call("parseIntoSourceFile", MainModule[MainFile].BufferID, 0) >>
                  \o (IF TypeCheckChunks
                      THEN << Call("typeCheckChunk", MainModule[MainFile].BufferID,
                                   CurTUElem) >>
                      ELSE << >>)
             /\ CurTUElem' = NextTUElem(MainModule[MainFile].Decls + n)
             /\ Done' = done
             /\ Pumps' = Pumps + 1
             /\ pc' = IF PumpAgain(done) THEN "MainFile" ELSE "TypeCheck"
    /\ UNCHANGED << LoadedASTs, TheSILModule, PrimarySourceFile, DelayedCB,
                    hadLoadError, NextBuffer >>
    /\ UNCHANGED setupVars

\* Whole-file type-checking that does not look at the primary buffer.
TypeCheckWholeFile_Any(SF) == TRUE

\* Is a file of the module type-checked as a whole.
TypeCheckWholeFile(SF) ==
    \/ PrimaryBufferID = NO_SUCH_BUFFER
    \/ (SF.BufferID # NO_SUCH_BUFFER /\ SF.BufferID = PrimaryBufferID)

RECURSIVE WholeFileCalls(_)
WholeFileCalls(files) ==
    IF files = << >> THEN << >>
    ELSE (IF TypeCheckWholeFile(Head(files))
          THEN << Call("typeCheckWholeFile", Head(files).BufferID, 0) >>
          ELSE << >>) \o WholeFileCalls(Tail(files))

\* The whole-file type-checking loop.
TypeCheckFiles ==
    /\ pc = "TypeCheck"
    /\ Calls' = IF ~Invocation.ParseOnly THEN Calls \o WholeFileCalls(MainModule)
                ELSE Calls
    /\ pc' = "DelayedParsing"
    /\ UNCHANGED << MainModule, LoadedASTs, TheSILModule, PrimarySourceFile,
                    DelayedCB, hadLoadError, NextBuffer, CurTUElem, Done, Pumps >>
    /\ UNCHANGED setupVars

\* The delayed pass, and the return.
DelayedParsing ==
    /\ pc = "DelayedParsing"
    /\ Calls' = IF DelayedCB # "None"
                THEN Append(Calls, Call("performDelayedParsing", NO_SUCH_BUFFER, 0))
                ELSE Calls
    /\ pc' = "Ready"
    /\ UNCHANGED << MainModule, LoadedASTs, TheSILModule, PrimarySourceFile,
                    DelayedCB, hadLoadError, NextBuffer, CurTUElem, Done, Pumps >>
    /\ UNCHANGED setupVars

\* ------------------------------------------------------------------ Spec

Next ==
    \/ Setup
    \/ PerformParseBegin
    \/ ParseLibrary
    \/ LibrariesDone
    \/ PumpMainFile
    \/ TypeCheckFiles
    \/ DelayedParsing

Spec == Init /\ [][Next]_vars

\* performParse runs on the caller's thread to its end: a step that can be
\* taken is taken (every collaborator call returns; the main file's parser
\* reports exhausted within MaxPumps pumps).
LiveSpec ==
    /\ Spec
    /\ WF_vars(PerformParseBegin)
    /\ WF_vars(ParseLibrary)
    /\ WF_vars(LibrariesDone)
    /\ WF_vars(PumpMainFile)
    /\ WF_vars(TypeCheckFiles)
    /\ WF_vars(DelayedParsing)

\* ---------------------------------------------------- reading the state

Configured == pc \notin { "Unconfigured", "SetupFailed", "Aborted" }

SetupEnded == pc # "Unconfigured"

\* setup has just ended (performParse leaves what setup wrote alone).
SetupReturned == pc \in { "Configured", "SetupFailed", "Aborted" }

\* How often x occurs in a sequence.
Occurrences(seq, x) == Cardinality({ i \in 1..Len(seq) : seq[i] = x })

\* The buffers registered under an identifier, by origin.
BuffersNamed(ident) == getIDForBufferIdentifier(SourceMgr, ident)

MemoryBuffersNamed(ident) ==
    { id \in BuffersNamed(ident) : SourceMgr[id].origin = "Memory" }

DiskBuffersNamed(ident) ==
    { id \in BuffersNamed(ident) : SourceMgr[id].origin = "Disk" }

InputFiles == Invocation.InputFilenames

\* The positions in Calls of the calls of an operation.
CallsOf(op) == { i \in 1..Len(Calls) : Calls[i][1] = op }

TypeCheckCalls == CallsOf("typeCheckChunk") \cup CallsOf("typeCheckWholeFile")

\* The pumps of the main file among the calls.
MainPumps ==
    { i \in CallsOf("parseIntoSourceFile") :
        MainBufferID # NO_SUCH_BUFFER /\ Calls[i][2] = MainBufferID }

\* ----------------------------------------------------------------- C1

\* C1 (as stated): after setup, every file input whose identifier was already
\* registered when its turn came, by a memory input or an earlier file input,
\* leaves exactly one buffer registered under that identifier.  (Stated for
\* invocations without a code-completion buffer, so that only memory and file
\* inputs are registered.)
C1_ExactlyOneBufferPerDedupedFile ==
    (pc = "Configured" /\ ~isCodeCompletion) =>
      \A i \in 1..Len(InputFiles) :
        ( \/ MemoryBuffersNamed(InputFiles[i]) # {}
          \/ \E j \in 1..(i - 1) : InputFiles[j] = InputFiles[i] )
        => Cardinality(BuffersNamed(InputFiles[i])) = 1

\* C1 (amended): a file input whose identifier is already registered is not
\* opened and adds no buffer: a path is opened at most once and registered
\* from disk at most once; a path that a memory buffer (a memory input or the
\* code-completion buffer) names is never opened and never registered from
\* disk, so the buffers under it are exactly the memory buffers that were
\* there; the registry holds one buffer per BufferIDs entry; and the main /
\* primary selection of a file input lands on a buffer registered under that
\* file's identifier (a memory one when there is one).
C1_DedupedFileAddsNoBuffer ==
    SetupReturned =>
      /\ Len(SourceMgr) = Len(BufferIDs)
      /\ \A File \in Paths :
           /\ Occurrences(OpenedFiles, File) <= 1
           /\ Cardinality(DiskBuffersNamed(File)) <= 1
           /\ DiskBuffersNamed(File) # {} => Occurrences(OpenedFiles, File) = 1
           /\ MemoryBuffersNamed(File) # {} =>
                /\ Occurrences(OpenedFiles, File) = 0
                /\ DiskBuffersNamed(File) = {}
      /\ pc = "Configured" =>
           \A i \in 1..Len(InputFiles) :
             /\ BuffersNamed(InputFiles[i]) # {}
             /\ IsPrimaryInput(Invocation, "filename", i) =>
                  PrimaryBufferID \in BuffersNamed(InputFiles[i])
             /\ ( /\ IsMainFilename(Invocation, InputFiles[i])
                  /\ \A j \in (i + 1)..Len(InputFiles) :
                       ~IsMainFilename(Invocation, InputFiles[j]) )
                => MainBufferID \in BuffersNamed(InputFiles[i])

\* C1 witness: a file input named by a memory input was resolved to the
\* memory buffer, which is both the main and the primary buffer, and a second
\* file input was listed twice and opened once.
C1_Witness ==
    /\ pc = "Configured"
    /\ Len(InputFiles) = 2
    /\ InputFiles[1] = InputFiles[2]
    /\ IsPrimaryInput(Invocation, "filename", 2)
    /\ MemoryBuffersNamed(InputFiles[2]) # {}
    /\ PrimaryBufferID \in MemoryBuffersNamed(InputFiles[2])
    /\ MainBufferID = PrimaryBufferID
    /\ Invocation.InputKind = "Main"
    /\ OpenedFiles = << >>

\* A second C1 scenario: the same path listed twice, with no memory buffer.
C1_SamePathTwice ==
    /\ pc = "Configured"
    /\ Len(InputFiles) = 2
    /\ InputFiles[1] = InputFiles[2]
    /\ OpenedFiles = << InputFiles[1] >>
    /\ Len(BufferIDs) = 1

\* ----------------------------------------------------------------- C2

\* Was a main buffer chosen by the explicit rule: any input in SIL mode, a
\* file input called main.swift in Main mode.
ExplicitMain ==
    \/ /\ Invocation.InputKind = "SIL"
       /\ Len(Invocation.InputBuffers) + Len(InputFiles) > 0
    \/ /\ Invocation.InputKind = "Main"
       /\ \E i \in 1..Len(InputFiles) : filename(InputFiles[i]) = "main.swift"

\* The inputs overall, after dedup: the memory inputs, and the distinct file
\* paths that no memory input names.
InputCount ==
    Len(Invocation.InputBuffers)
    + Cardinality({ InputFiles[i] : i \in 1..Len(InputFiles) }
                  \ { Invocation.InputBuffers[j].ident :
                        j \in 1..Len(Invocation.InputBuffers) })

\* C2 (as stated): after a successful setup with no explicit main and exactly
\* one input overall, that input is the main buffer iff the input kind is
\* Main, with or without a code-completion target.
C2_OneInputIsMainIffMainKind ==
    (pc = "Configured" /\ ~ExplicitMain /\ InputCount = 1) =>
      (MainBufferID # NO_SUCH_BUFFER <=> Invocation.InputKind = "Main")

\* C2 (amended): after a successful setup with no explicit main, a main
\* buffer is designated iff the input kind is Main and exactly one buffer is
\* registered, the code-completion buffer counted with the inputs; it is then
\* that buffer.  With two or more registered buffers the fallback never
\* fires.
C2_OneBufferIsMainIffMainKind ==
    (pc = "Configured" /\ ~ExplicitMain) =>
      /\ MainBufferID # NO_SUCH_BUFFER <=>
           (Invocation.InputKind = "Main" /\ Len(BufferIDs) = 1)
      /\ MainBufferID # NO_SUCH_BUFFER => MainBufferID = BufferIDs[1]

\* C2 witness: one input and no code-completion target, the fallback fired.
C2_Witness ==
    /\ pc = "Configured"
    /\ ~ExplicitMain
    /\ InputCount = 1
    /\ ~isCodeCompletion
    /\ Len(InputFiles) = 1
    /\ MainBufferID = BufferIDs[1]

\* ----------------------------------------------------------------- C3

\* C3: with parse-only, performParse issues no chunk type-check and no
\* whole-file type-check.
C3_ParseOnlyNeverTypeChecks ==
    Invocation.ParseOnly => TypeCheckCalls = {}

\* C3 witness: a parse-only run ended with a main file pumped twice, a library
\* file beside it and a primary buffer.
C3_Witness ==
    /\ pc = "Ready"
    /\ Invocation.ParseOnly
    /\ Pumps = 2
    /\ Len(MainModule) >= 2
    /\ PrimaryBufferID # NO_SUCH_BUFFER
    /\ MainBufferID = PrimaryBufferID

\* ----------------------------------------------------------------- C4

\* C4: with a primary buffer, every whole-file type-check is of the file of
\* the primary buffer.
C4_WholeFileCheckOnlyPrimary ==
    PrimaryBufferID # NO_SUCH_BUFFER =>
      \A i \in CallsOf("typeCheckWholeFile") : Calls[i][2] = PrimaryBufferID

\* C4 witness: a module of three files, one of them the primary, and one
\* whole-file type-check.
C4_Witness ==
    /\ pc = "Ready"
    /\ PrimaryBufferID # NO_SUCH_BUFFER
    /\ Len(MainModule) = 3
    /\ Cardinality(CallsOf("typeCheckWholeFile")) = 1

\* ----------------------------------------------------------------- C5

\* The library buffers: neither the main buffer nor a serialized module.
IsLibraryBuffer(BufferID) ==
    BufferID # MainBufferID /\ ~isSerializedAST(BufferID)

LibraryBuffers == SelectSeq(BufferIDs, IsLibraryBuffer)

IsLibraryCall(c) ==
    /\ c[1] \in { "parseIntoSourceFile", "performNameBinding" }
    /\ c[2] # MainBufferID

\* The parse and bind calls for library files, in the order issued.
LibraryCallsIssued == SelectSeq(Calls, IsLibraryCall)

\* C5: the library calls issued so far are parse, bind of the first library
\* buffer, then parse, bind of the second, and so on in registration order;
\* and when the main file is first pumped every library buffer has been
\* parsed and bound.
C5_LibrariesInOrderBeforeMain ==
    (Configured /\ Calls # << >>) =>
      LET libraries == LibraryBuffers
          issued == LibraryCallsIssued
      IN  /\ Len(issued) <= 2 * Len(libraries)
          /\ Len(issued) % 2 = 0
          /\ \A j \in 1..Len(issued) :
               issued[j] =
                 IF j % 2 = 1
                 THEN Call("parseIntoSourceFile", libraries[(j + 1) \div 2], 0)
                 ELSE Call("performNameBinding", libraries[j \div 2], 0)
          /\ \A i \in MainPumps :
               Len(SelectSeq(SubSeq(Calls, 1, i - 1), IsLibraryCall))
                 = 2 * Len(libraries)

\* C5 witness: two library files and a pumped main file.
C5_Witness ==
    /\ pc = "Ready"
    /\ Len(LibraryBuffers) = 2
    /\ Len(LibraryCallsIssued) = 4
    /\ MainPumps # {}

\* ----------------------------------------------------------------- C6

\* The serialized loads that failed: issued and not merged.
FailedLoads ==
    { i \in CallsOf("loadAST") :
        \A k \in 1..Len(LoadedASTs) : LoadedASTs[k] # Calls[i][2] }

\* C6: once a serialized load has failed, the main file is never pumped, no
\* type-check and no delayed pass is issued, and performParse is still in the
\* library loop or has ended in Failed.
C6_LoadFailureStopsAfterLibraries ==
    FailedLoads # {} =>
      /\ pc \in { "Libraries", "Failed" }
      /\ MainPumps = {}
      /\ TypeCheckCalls = {}
      /\ CallsOf("performDelayedParsing") = {}
      /\ \A i \in 1..Len(MainModule) :
           MainModule[i].BufferID = MainBufferID =>
             (MainModule[i].Decls = 0 /\ ~MainModule[i].Parsed)

\* C6 witness: a failed run that had a main file to parse, type-checking on
\* and a delayed pass installed.
C6_Witness ==
    /\ pc = "Failed"
    /\ FailedLoads # {}
    /\ MainBufferID # NO_SUCH_BUFFER
    /\ ~Invocation.ParseOnly
    /\ DelayedCB # "None"

\* ----------------------------------------------------------------- C7

NotMainBuffer(BufferID) == BufferID # MainBufferID

IsAttempt(c) ==
    \/ c[1] = "loadAST"
    \/ (c[1] = "parseIntoSourceFile" /\ c[2] # MainBufferID)

\* The buffers the library loop has attempted, in order.
RECURSIVE BuffersOf(_)
BuffersOf(calls) ==
    IF calls = << >> THEN << >> ELSE << Head(calls)[2] >> \o BuffersOf(Tail(calls))

Attempted == BuffersOf(SelectSeq(Calls, IsAttempt))

\* The non-main buffers at the first n positions of BufferIDs.
NonMainUpTo(n) == SelectSeq(SubSeq(BufferIDs, 1, n), NotMainBuffer)

\* performParse has reached the library loop (a REPL session returns before
\* it, and so does a failed assertion).
LoopReached ==
    \/ pc \in { "Libraries", "Failed", "MainFile", "TypeCheck", "DelayedParsing" }
    \/ (pc = "Ready" /\ Invocation.InputKind # "REPL")

\* C7: whatever loads failed, the buffers attempted are the non-main buffers
\* the loop has gone past, in registration order, all of them once the loop
\* has ended; and every library buffer attempted has its file attached,
\* parsed and bound.
C7_LoadFailureDoesNotStopLoop ==
    LoopReached =>
      LET attempted == Attempted
      IN  /\ attempted = NonMainUpTo(IF pc = "Libraries" THEN NextBuffer - 1
                                     ELSE Len(BufferIDs))
          /\ \A k \in 1..Len(attempted) :
               IsLibraryBuffer(attempted[k]) =>
                 \E i \in 1..Len(MainModule) :
                   /\ MainModule[i].BufferID = attempted[k]
                   /\ MainModule[i].Kind = "Library"
                   /\ MainModule[i].Parsed /\ MainModule[i].Bound

\* C7 witness: a run ended in Failed in which a library file was parsed, then
\* a load failed, then another library file was parsed and bound.
C7_Witness ==
    /\ pc = "Failed"
    /\ Len(Attempted) = 3
    /\ Calls[3] = Call("loadAST", Attempted[2], 0)
    /\ FailedLoads = { 3 }
    /\ Calls[5] = Call("performNameBinding", Attempted[3], 0)
    /\ Len(MainModule) = 2

\* ----------------------------------------------------------------- C8

\* The main file's declarations, 0 when there is none.
MainFileDecls ==
    IF \E i \in 1..Len(MainModule) :
         MainBufferID # NO_SUCH_BUFFER /\ MainModule[i].BufferID = MainBufferID
    THEN MainModule[CHOOSE i \in 1..Len(MainModule) :
                      MainModule[i].BufferID = MainBufferID].Decls
    ELSE 0

\* performParse is past the pump loop.
PastMainFile == pc \in { "TypeCheck", "DelayedParsing", "Ready" }

\* C8: the pump loop is left only when a pump has reported exhausted, and
\* once one has, no step pumps the main file or changes its declaration
\* count.
C8_NoPumpAfterExhausted ==
    /\ []((PastMainFile /\ MainBufferID # NO_SUCH_BUFFER) => (Done /\ Pumps >= 1))
    /\ []((pc = "MainFile" /\ Pumps >= 1) => ~Done)
    /\ [][Done => ( /\ Pumps' = Pumps
                    /\ MainFileDecls' = MainFileDecls
                    /\ Cardinality(MainPumps') = Cardinality(MainPumps) )]_vars

\* C8 witness: a main file pumped twice, exhausted at the second pump, with
\* type-checking and the delayed pass run after it.
C8_Witness ==
    /\ pc = "Ready"
    /\ Done
    /\ Pumps = 2
    /\ MainFileDecls = 2
    /\ TypeCheckCalls # {}
    /\ CallsOf("performDelayedParsing") # {}

\* ----------------------------------------------------------------- C9

NothingRegistered ==
    BufferIDs = << >> /\ SourceMgr = << >> /\ OpenedFiles = << >>

\* Setup stopped at the target configuration: an unsupported OS in a build
\* with assertions.
AbortedOnTarget ==
    pc = "Aborted" /\ ~isMacOSX(Invocation.Triple) /\ ~isiOS(Invocation.Triple)

\* C9: with an SDK path and no importer linked in, and with an importer whose
\* construction fails, setup (when it gets as far as the loaders) returns
\* failure, and in any case registers no buffer and opens no file; with no
\* importer and no SDK path, setup fails only on a file it cannot open.
C9_BridgeFailuresFailFast ==
    SetupReturned =>
      /\ (Invocation.SDKPath /\ ~Host.ImporterCtor) =>
           (NothingRegistered /\ (pc = "SetupFailed" \/ AbortedOnTarget))
      /\ (Host.ImporterCtor /\ ~Host.ImporterCreated) =>
           (NothingRegistered /\ (pc = "SetupFailed" \/ AbortedOnTarget))
      /\ (~Invocation.SDKPath /\ ~Host.ImporterCtor /\ pc = "SetupFailed") =>
           /\ OpenedFiles # << >>
           /\ FileSystem(OpenedFiles[Len(OpenedFiles)]) = "ENOENT"

\* C9 witness: setup failed for an SDK path without an importer, with a
\* code-completion buffer and a file input waiting to be registered.
C9_Witness ==
    /\ pc = "SetupFailed"
    /\ Invocation.SDKPath /\ ~Host.ImporterCtor
    /\ isCodeCompletion
    /\ InputFiles = << "src/main.swift" >>
    /\ NothingRegistered

\* ---------------------------------------------------------------- C10

\* C10: setup with a target triple whose OS or architecture is not recognized
\* ends fatally: it does not return, with success or failure, and nothing
\* goes on with "os" or "arch" unset.
C10_UnrecognizedTripleIsFatal ==
    (SetupEnded /\ Invocation.Triple \in UnrecognizedTriples) => pc = "Aborted"

\* ---------------------------------------------------------------- C11

\* setup got as far as registering the inputs: the target configuration did
\* not abort and the Clang importer was wired up.
ReachedInputs ==
    /\ SetupReturned
    /\ pc # "Aborted"
    /\ ~(Host.ImporterCtor /\ ~Host.ImporterCreated)
    /\ ~(~Host.ImporterCtor /\ Invocation.SDKPath)

\* The first file input that cannot be opened and that no memory buffer
\* stands in for; 0 when there is none.
Unreadable(i) ==
    /\ FileSystem(InputFiles[i]) = "ENOENT"
    /\ MemoryBuffersNamed(InputFiles[i]) = {}

FailingFile ==
    IF \E i \in 1..Len(InputFiles) : Unreadable(i)
    THEN CHOOSE i \in 1..Len(InputFiles) :
           Unreadable(i) /\ \A j \in 1..(i - 1) : ~Unreadable(j)
    ELSE 0

\* The file inputs before position f.
FilesBefore(f) == { InputFiles[j] : j \in 1..(f - 1) }

\* C11: when a file input that is not deduplicated cannot be opened, setup
\* returns failure at that file and never reports success: the failing file
\* is the last one opened, only earlier file inputs were opened or registered
\* from disk, the primary buffer is not one selected by the failing or a later
\* file input, the main buffer is one chosen by a memory input or an earlier
\* file input, and the single-buffer fallback is not applied.
C11_OpenFailureEndsSetup ==
    (ReachedInputs /\ FailingFile # 0) =>
      LET f == FailingFile
      IN  /\ pc = "SetupFailed"
          /\ OpenedFiles # << >>
          /\ OpenedFiles[Len(OpenedFiles)] = InputFiles[f]
          /\ \A k \in 1..(Len(OpenedFiles) - 1) : OpenedFiles[k] \in FilesBefore(f)
          /\ \A File \in Paths : DiskBuffersNamed(File) # {} => File \in FilesBefore(f)
          /\ \A j \in 1..(f - 1) : BuffersNamed(InputFiles[j]) # {}
          /\ PrimaryBufferID # NO_SUCH_BUFFER =>
                \/ /\ Invocation.PrimaryInput.kind = "buffer"
                   /\ Invocation.PrimaryInput.Index <= Len(Invocation.InputBuffers)
                \/ /\ Invocation.PrimaryInput.kind = "filename"
                   /\ Invocation.PrimaryInput.Index < f
                   /\ PrimaryBufferID
                        \in BuffersNamed(InputFiles[Invocation.PrimaryInput.Index])
          /\ IsPrimaryInput(Invocation, "filename", Invocation.PrimaryInput.Index)
                /\ Invocation.PrimaryInput.Index >= f
                => PrimaryBufferID = NO_SUCH_BUFFER
          /\ Invocation.InputKind = "Main" =>
                (MainBufferID # NO_SUCH_BUFFER =>
                   \E j \in 1..(f - 1) :
                     /\ filename(InputFiles[j]) = "main.swift"
                     /\ MainBufferID \in BuffersNamed(InputFiles[j]))
          /\ Invocation.InputKind = "SIL" =>
                IF f > 1 THEN MainBufferID \in BuffersNamed(InputFiles[f - 1])
                ELSE IF Invocation.InputBuffers # << >>
                THEN MainBufferID = BufferIDs[Len(BufferIDs)]
                ELSE MainBufferID = NO_SUCH_BUFFER
          /\ Invocation.InputKind \in { "Library", "REPL" } =>
                MainBufferID = NO_SUCH_BUFFER

\* C11 witness: the first of two file inputs could not be opened; the second,
\* main.swift and the primary input, was never opened, and the one buffer
\* registered before the failure did not become the main buffer.
C11_Witness ==
    /\ pc = "SetupFailed"
    /\ InputFiles = << "src/gone.swift", "src/main.swift" >>
    /\ Invocation.InputKind = "Main"
    /\ Len(Invocation.InputBuffers) = 1
    /\ IsPrimaryInput(Invocation, "filename", 2)
    /\ OpenedFiles = << "src/gone.swift" >>
    /\ Len(BufferIDs) = 1
    /\ MainBufferID = NO_SUCH_BUFFER
    /\ PrimaryBufferID = NO_SUCH_BUFFER

\* ---------------------------------------------------------------- C12

\* Is a loader expected in the chain of this invocation on this host.
LoaderExpected(loader) ==
    CASE loader = "SourceLoader" -> Invocation.EnableSourceImport
      [] loader = "SerializedModuleLoader" -> TRUE
      [] loader = "ClangImporter" -> Host.ImporterCtor

ExpectedLoaders ==
    SelectSeq(<< "SourceLoader", "SerializedModuleLoader", "ClangImporter" >>,
              LoaderExpected)

\* C12: after a successful setup the loader chain is the ordered sublist of
\* source loader, serialized loader, Clang importer with the source loader
\* present iff source import is enabled, the serialized loader always and the
\* Clang importer iff one is linked in; and no step after setup changes the
\* chain.
C12_LoaderChainFixedAtSetup ==
    /\ [](Configured => ModuleLoaders = ExpectedLoaders)
    /\ [][Configured => ModuleLoaders' = ModuleLoaders]_vars

\* C12 witness: a session with all three loaders whose performParse has run
\* to the end.
C12_Witness ==
    /\ pc = "Ready"
    /\ Invocation.EnableSourceImport
    /\ ModuleLoaders = << "SourceLoader", "SerializedModuleLoader", "ClangImporter" >>
    /\ Calls # << >>

\* ---------------------------------------------------------------- C13

\* The positions of BufferIDs the memory inputs were pushed at: after the
\* code-completion buffer, when there is one.
MemoryInputPosition(i) == (IF isCodeCompletion THEN 1 ELSE 0) + i

\* What performParse has made of a registered buffer: the SourceFiles created
\* for it and the serialized merges issued for it.
SourceFilesOf(BufferID) ==
    { i \in 1..Len(MainModule) : MainModule[i].BufferID = BufferID }

MergesOf(BufferID) == { i \in CallsOf("loadAST") : Calls[i][2] = BufferID }

\* C13: after a successful setup the registered buffer list holds pairwise
\* distinct ids of registered buffers; each memory input has an id of its own
\* in it, under its identifier, whatever the identifiers of the other memory
\* inputs; and performParse creates at most one SourceFile or one serialized
\* merge per registered buffer, and none for anything else.
C13_BufferIDsDistinct ==
    Configured =>
      /\ \A i, j \in 1..Len(BufferIDs) : BufferIDs[i] = BufferIDs[j] => i = j
      /\ \A i \in 1..Len(BufferIDs) : BufferIDs[i] \in 1..Len(SourceMgr)
      /\ Len(BufferIDs) >= MemoryInputPosition(Len(Invocation.InputBuffers))
      /\ \A i \in 1..Len(Invocation.InputBuffers) :
           LET BufferID == BufferIDs[MemoryInputPosition(i)]
           IN  /\ SourceMgr[BufferID].ident = Invocation.InputBuffers[i].ident
               /\ SourceMgr[BufferID].content = Invocation.InputBuffers[i].content
               /\ SourceMgr[BufferID].origin = "Memory"
      /\ \A i \in 1..Len(BufferIDs) :
           Cardinality(SourceFilesOf(BufferIDs[i]))
             + Cardinality(MergesOf(BufferIDs[i])) <= 1
      /\ \A i \in 1..Len(MainModule) :
           MainModule[i].BufferID # NO_SUCH_BUFFER =>
             \E k \in 1..Len(BufferIDs) : BufferIDs[k] = MainModule[i].BufferID
      /\ \A i \in CallsOf("loadAST") :
           \E k \in 1..Len(BufferIDs) : BufferIDs[k] = Calls[i][2]

\* C13 witness: two memory inputs under one identifier, each with its own
\* buffer and, at the end of performParse, its own SourceFile.
C13_Witness ==
    /\ pc = "Ready"
    /\ Len(Invocation.InputBuffers) = 2
    /\ Invocation.InputBuffers[1].ident = Invocation.InputBuffers[2].ident
    /\ ~isCodeCompletion
    /\ Len(BufferIDs) = 2
    /\ Len(MainModule) = 2
    /\ MainModule[1].BufferID # MainModule[2].BufferID

\* ---------------------------------------------------------------- C14

\* The files whose chunks were type-checked during the pump loop.
IncrementallyChecked == { Calls[j][2] : j \in CallsOf("typeCheckChunk") }

\* C14: no whole-file type-check is issued for a file whose chunks were
\* type-checked during the pump loop.
C14_NoWholeFileCheckOfCheckedMain ==
    \A i \in CallsOf("typeCheckWholeFile") : Calls[i][2] \notin IncrementallyChecked

\* ---------------------------------------------------------------- C15

IsChunkCheck(c) == c[1] = "typeCheckChunk"

\* The chunk type-checks issued so far, in order.
ChunkChecks == SelectSeq(Calls, IsChunkCheck)

\* C15: when chunk type-checking is enabled, every pump of the main file is
\* followed at once by exactly one chunk type-check of the main file; the
\* start index passed after a pump is the main file's declaration count from
\* before that pump (0 at the first pump); so the starts begin at 0, never
\* decrease and never pass the declaration count, each chunk ending where the
\* next one starts.
C15_ChunksContiguous ==
    /\ []((Configured /\ TypeCheckChunks) =>
           LET checks == ChunkChecks
           IN  /\ Len(checks) = Pumps
               /\ Cardinality(MainPumps) = Pumps
               /\ \A i \in MainPumps :
                    /\ i + 1 <= Len(Calls)
                    /\ Calls[i + 1][1] = "typeCheckChunk"
                    /\ Calls[i + 1][2] = MainBufferID
               /\ \A i \in CallsOf("typeCheckChunk") :
                    i > 1 /\ (i - 1) \in MainPumps
               /\ Len(checks) >= 1 => checks[1][3] = 0
               /\ \A k \in 1..(Len(checks) - 1) : checks[k][3] <= checks[k + 1][3]
               /\ \A k \in 1..Len(checks) : checks[k][3] <= MainFileDecls)
    /\ [][(pc = "MainFile" /\ TypeCheckChunks) =>
            /\ Len(Calls') = Len(Calls) + 2
            /\ SubSeq(Calls', 1, Len(Calls)) = Calls
            /\ Calls'[Len(Calls) + 1] = Call("parseIntoSourceFile", MainBufferID, 0)
            /\ Calls'[Len(Calls) + 2] = Call("typeCheckChunk", MainBufferID, MainFileDecls)
            /\ MainFileDecls' >= MainFileDecls]_vars

\* C15 witness: two pumps of one declaration each, type-checked from 0 and
\* from 1, beside a library file.
C15_Witness ==
    /\ pc = "Ready"
    /\ TypeCheckChunks
    /\ Pumps = 2
    /\ MainFileDecls = 2
    /\ Len(MainModule) = 2
    /\ ChunkChecks = << Call("typeCheckChunk", MainBufferID, 0),
                        Call("typeCheckChunk", MainBufferID, 1) >>

\* ---------------------------------------------------------------- C16

\* C16: with a main buffer and an input kind other than REPL, from the moment
\* performParse has created the main file's SourceFile to its end, that file
\* is the first of the module's files, of the input kind (Main or SIL), and
\* the only file of the main buffer; and when it is first pumped every
\* library buffer has its file attached behind it, parsed and bound.
C16_MainFileFirst ==
    (LoopReached /\ MainBufferID # NO_SUCH_BUFFER /\ Invocation.InputKind # "REPL") =>
      /\ Invocation.InputKind \in { "Main", "SIL" }
      /\ Len(MainModule) >= 1
      /\ MainModule[1].BufferID = MainBufferID
      /\ MainModule[1].Kind = Invocation.InputKind
      /\ SourceFilesOf(MainBufferID) = { 1 }
      /\ \A i \in 2..Len(MainModule) : MainModule[i].Kind = "Library"
      /\ MainPumps # {} =>
           LET libraries == LibraryBuffers
           IN  /\ Len(MainModule) = 1 + Len(libraries)
               /\ \A k \in 1..Len(libraries) :
                    /\ MainModule[k + 1].BufferID = libraries[k]
                    /\ MainModule[k + 1].Parsed /\ MainModule[k + 1].Bound

\* C16 witness: the main buffer was registered last, after two library
\* buffers, and its file is the first of three at the end of performParse.
C16_Witness ==
    /\ pc = "Ready"
    /\ Len(BufferIDs) = 3
    /\ MainBufferID = BufferIDs[3]
    /\ Len(MainModule) = 3
    /\ MainModule[1].BufferID = MainBufferID
    /\ MainModule[1].Parsed
    /\ MainPumps # {}

\* ---------------------------------------------------------------- C17

\* The buffer registered for memory input i.
MemoryInputID(i) == BufferIDs[MemoryInputPosition(i)]

\* Memory input i is the last input that the file loop's rule would record
\* as the main buffer were the memory inputs given as file inputs: it
\* satisfies the rule, and no later memory input and no file input does.
LastMainByFileRule(i) ==
    /\ IsMainFilename(Invocation, Invocation.InputBuffers[i].ident)
    /\ \A j \in (i + 1)..Len(Invocation.InputBuffers) :
         ~IsMainFilename(Invocation, Invocation.InputBuffers[j].ident)
    /\ \A j \in 1..Len(InputFiles) : ~IsMainFilename(Invocation, InputFiles[j])

\* C17 (as stated): for the kinds Main and SIL, a memory input that the file
\* loop's rule would record as the main buffer is the main buffer after a
\* successful setup.
C17_MemoryInputsFollowFileRule ==
    (pc = "Configured" /\ Invocation.InputKind \in { "Main", "SIL" }) =>
      \A i \in 1..Len(Invocation.InputBuffers) :
        LastMainByFileRule(i) => MainBufferID = MemoryInputID(i)

\* C17 (amended): the rule is the same only for SIL, where every input,
\* memory or file, is recorded as the main buffer in turn.  For Main, a
\* memory input's identifier is not looked at: its buffer is the main buffer
\* only when a file input called main.swift with the same identifier resolved
\* to it, or when it is the only registered buffer (the fallback).
C17_MemoryInputMainOnlyInSIL ==
    pc = "Configured" =>
      /\ Invocation.InputKind = "SIL" =>
           \A i \in 1..Len(Invocation.InputBuffers) :
             LastMainByFileRule(i) => MainBufferID = MemoryInputID(i)
      /\ Invocation.InputKind = "Main" =>
           \A i \in 1..Len(Invocation.InputBuffers) :
             MainBufferID = MemoryInputID(i) =>
               \/ \E j \in 1..Len(InputFiles) :
                    /\ InputFiles[j] = Invocation.InputBuffers[i].ident
                    /\ filename(InputFiles[j]) = "main.swift"
               \/ Len(BufferIDs) = 1
      /\ Invocation.InputKind \in { "Library", "REPL" } =>
           MainBufferID = NO_SUCH_BUFFER

\* C17 witness: under Main, a memory input called main.swift beside another
\* memory input became the main buffer through the file input of the same
\* identifier, which was not opened.
C17_Witness ==
    /\ pc = "Configured"
    /\ Invocation.InputKind = "Main"
    /\ Len(Invocation.InputBuffers) = 2
    /\ Invocation.InputBuffers[1].ident = "src/main.swift"
    /\ Invocation.InputBuffers[2].ident = "src/a.swift"
    /\ InputFiles = << "src/main.swift" >>
    /\ ~isCodeCompletion
    /\ MainBufferID = MemoryInputID(1)
    /\ OpenedFiles = << >>

\* ---------------------------------------------------------------- C18

\* C18: in a REPL session performParse attaches one empty REPL file without a
\* buffer and returns: whatever was registered and whatever delayed-parsing
\* options were given, no buffer is parsed, bound or merged, no type-check is
\* issued, no delayed pass is installed or run, and no file becomes the
\* primary source file.
C18_REPLOnlyAttaches ==
    (Configured /\ Invocation.InputKind = "REPL") =>
      /\ pc \in { "Configured", "Ready" }
      /\ Calls = << >>
      /\ LoadedASTs = << >>
      /\ DelayedCB = "None"
      /\ PrimarySourceFile = 0
      /\ Pumps = 0
      /\ ~hadLoadError
      /\ pc = "Configured" => MainModule = << >>
      /\ pc = "Ready" =>
           MainModule = << [ Kind |-> "REPL", BufferID |-> NO_SUCH_BUFFER,
                             Decls |-> 0, Parsed |-> FALSE, Bound |-> FALSE ] >>

\* C18 witness: a REPL session with a source buffer, a serialized module and
\* a code-completion buffer registered, a primary input and delayed parsing
\* asked for, after performParse.
C18_Witness ==
    /\ pc = "Ready"
    /\ Invocation.InputKind = "REPL"
    /\ Len(BufferIDs) = 3
    /\ \E i \in 1..Len(BufferIDs) : isSerializedAST(BufferIDs[i])
    /\ isCodeCompletion
    /\ Invocation.DelayedFunctionBodyParsing
    /\ PrimaryBufferID # NO_SUCH_BUFFER
    /\ ~Invocation.ParseOnly
    /\ Len(MainModule) = 1

\* ---------------------------------------------------------------- C19

Terminal == pc \in { "Ready", "Failed" }

\* C19: every performParse call started from Configured eventually reaches
\* Ready or Failed: Failed if and only if a serialized merge failed, Ready
\* otherwise.
C19_PerformParseTerminates ==
    /\ (pc = "Configured") ~> Terminal
    /\ [](pc = "Failed" => FailedLoads # {})
    /\ [](pc = "Ready" => FailedLoads = {})

\* The same for the calls that get past the assertions at the start of the
\* SIL branch.
C19_TerminatesPastAssertions ==
    /\ LoopReached ~> Terminal
    /\ [](pc = "Failed" => FailedLoads # {})
    /\ [](pc = "Ready" => FailedLoads = {})

\* ---------------------------------------------------------------- C20

\* An assertion of performParse failed: the process was aborted after setup
\* had configured the target.
AbortedInPerformParse == pc = "Aborted" /\ TargetConfigOptions.os # Unset

\* C20: whenever setup succeeds with input kind SIL, exactly one buffer is
\* registered and it is the main buffer, so neither assertion at the start of
\* performParse's SIL branch fails.
C20_SILSetupRegistersOneMainBuffer ==
    /\ (pc = "Configured" /\ Invocation.InputKind = "SIL") =>
         (Len(BufferIDs) = 1 /\ MainBufferID = BufferIDs[1])
    /\ ~AbortedInPerformParse

=============================================================================
